---- MODULE Spec2Model ----
(***************************************************************************)
(* IR relay controller (IRelayControl.ino): four active-low relays toggled *)
(* by learned IR codes, a blocking configuration mode that learns four     *)
(* codes, and an EEPROM that mirrors the code table and the relay states.  *)
(*                                                                         *)
(* A uint32_t is kept as its four little-endian bytes <<b0,b1,b2,b3>>, the *)
(* form in which EEPROM.get / EEPROM.put move it; the EEPROM is a function *)
(* from byte address to byte.                                              *)
(***************************************************************************)
EXTENDS Integers, Sequences, FiniteSets, TLC

\* ------------------------------------------------------------ constants
RELAY_STATE_ADDR == 16

NUM_RELAYS == 4

\* 0xE51A7F80, least significant byte first
CONFIG_IR_CODE == <<128, 127, 26, 229>>

\* the uint32_t value 0
ZERO == <<0, 0, 0, 0>>

Relays == 0 .. (NUM_RELAYS - 1)

\* the EEPROM cells the sketch uses: 0x00-0x0F codes, 0x10-0x13 relay states
EEAddrs == 0 .. (RELAY_STATE_ADDR + NUM_RELAYS - 1)

\* ------------------------------------------------------------ bounds
\* how many times relays are toggled in one run of the model
MaxToggles == 2

\* ------------------------------------------------------------ inputs
\* the codes of four ordinary remote keys
KEY_A == <<17, 0, 0, 0>>

KEY_B == <<34, 0, 0, 0>>

KEY_C == <<51, 0, 0, 0>>

KEY_D == <<68, 0, 0, 0>>

Keys == {KEY_A, KEY_B, KEY_C, KEY_D}

\* every value the decoder can hand over: a key, a zero frame, the MODE key
IRCodes == Keys \cup {ZERO, CONFIG_IR_CODE}

\* decode() returned false
NONE == << >>

Levels == {"LOW", "HIGH"}

\* ------------------------------------------------------------ state
VARIABLES
  eeprom,        \* EEPROM cells: [EEAddrs -> 0..255]
  hex_codes,     \* uint32_t hex_codes[NUM_RELAYS]: [Relays -> code]
  relay_states,  \* bool relay_states[NUM_RELAYS]
  pin,           \* level driven on RELAY_PINS[i]
  led,           \* level driven on LED_BUILTIN
  pc,            \* "loop": top of loop(); "irCheck": loop() line 120;
                 \* "config": inside the while loop of enterConfigMode()
  ret,           \* which call of enterConfigMode() is running
  codes_stored,  \* local of enterConfigMode()
  btn,           \* levels digitalRead(CONFIG_BUTTON) gave the last program
                 \* step (INPUT_PULLUP: LOW = pressed)
  irHeld,        \* the frame the receiver holds until resume(), or NONE
  decoded,       \* what decode() gave the last program step, or NONE
  serial,        \* lines printed by the last program step
  cue,           \* levels written to LED_BUILTIN by the last program step,
                 \* the waiting blink of line 159 left out
  toggles,       \* times toggleRelay() was called
  session        \* history, kept only where a specification records it: the
                 \* codes decode() gave so far in the running call of
                 \* enterConfigMode(), and how often it signalled a duplicate

vars == << eeprom, hex_codes, relay_states, pin, led, pc, ret, codes_stored,
           btn, irHeld, decoded, serial, cue, toggles, session >>

\* nothing recorded
NoSession == [fed |-> << >>, errors |-> 0]

\* ------------------------------------------------------------ helpers
Not(level) == IF level = "LOW" THEN "HIGH" ELSE "LOW"

\* uint8_t -> bool
ToBool(b) == b # 0

\* bool -> uint8_t
FromBool(b) == IF b THEN 1 ELSE 0

\* variant: the relays taken as active-high
RelayLevel_activeHigh(on) == IF on THEN "HIGH" ELSE "LOW"

\* relay_states[i] ? LOW : HIGH
RelayLevel(on) == IF on THEN "LOW" ELSE "HIGH"

Line(ev, idx, code) == [ev |-> ev, idx |-> idx, code |-> code]

\* Serial output "Relay <i> ON" / "Relay <i> OFF"
RelayLine(i, on) == Line(IF on THEN "Relay ON" ELSE "Relay OFF", i, ZERO)

\* variant: the four bytes of each code read most significant first
EEPROM_get_bigEndian(ee) ==
  [i \in Relays |-> << ee[4 * i + 3], ee[4 * i + 2], ee[4 * i + 1], ee[4 * i] >>]

\* EEPROM.get(0, hex_codes)
EEPROM_get(ee) ==
  [i \in Relays |-> << ee[4 * i], ee[4 * i + 1], ee[4 * i + 2], ee[4 * i + 3] >>]

\* variant: EEPROM.put(0, hex_codes[0]), one element instead of the array
EEPROM_put_firstOnly(ee, codes) ==
  [a \in EEAddrs |-> IF a < 4 THEN codes[a \div 4][(a % 4) + 1] ELSE ee[a]]

\* EEPROM.put(0, hex_codes)
EEPROM_put(ee, codes) ==
  [a \in EEAddrs |->
     IF a < 4 * NUM_RELAYS THEN codes[a \div 4][(a % 4) + 1] ELSE ee[a]]

\* EEPROM.update(addr, value)
EEPROM_update(ee, addr, value) ==
  IF ee[addr] = value THEN ee ELSE [ee EXCEPT ![addr] = value]

\* a store holding the code table t and the relay-state bytes s
Store(t, s) ==
  [a \in EEAddrs |->
     IF a < RELAY_STATE_ADDR THEN t[(a \div 4) + 1][(a % 4) + 1]
     ELSE s[a - RELAY_STATE_ADDR + 1]]

\* an EEPROM that was never written: every cell erased
ErasedStore == [a \in EEAddrs |-> 255]

\* a store with relay states [1,0,1,0] and a corrupted code table: a
\* duplicate, the MODE code and a zero in its slots
CorruptStore == Store(<<KEY_A, KEY_A, CONFIG_IR_CODE, ZERO>>, <<1, 0, 1, 0>>)

\* the stores a run can start from
InitStores == {ErasedStore, CorruptStore}

\* ------------------------------------------------------------ setup()
\* relay_states[i] = EEPROM.read(RELAY_STATE_ADDR + i)
LoadStates(ee) == [i \in Relays |-> ToBool(ee[RELAY_STATE_ADDR + i])]

\* the lines setup() prints: the state of each relay, then each code
SetupSerial(ee) ==
  [k \in 1 .. 2 * NUM_RELAYS |->
     IF k <= NUM_RELAYS
       THEN RelayLine(k - 1, LoadStates(ee)[k - 1])
       ELSE Line("Relay code", k - NUM_RELAYS - 1,
                 EEPROM_get(ee)[k - NUM_RELAYS - 1])]

\* the program state setup() leaves, from the store ee
Setup(ee) ==
  [ relay_states |-> LoadStates(ee),
    pin          |-> [i \in Relays |-> RelayLevel(LoadStates(ee)[i])],
    hex_codes    |-> EEPROM_get(ee),
    led          |-> "LOW",
    serial       |-> SetupSerial(ee) ]

\* the sketch has run setup() on the store ee
Booted(ee) ==
  /\ eeprom = ee
  /\ relay_states = Setup(ee).relay_states
  /\ pin = Setup(ee).pin
  /\ hex_codes = Setup(ee).hex_codes
  /\ led = Setup(ee).led
  /\ serial = Setup(ee).serial
  /\ cue = << >>
  /\ pc = "loop"
  /\ ret = "none"
  /\ codes_stored = 0
  /\ irHeld = NONE
  /\ decoded = NONE
  /\ btn = << >>

Init ==
  /\ \E ee \in InitStores : Booted(ee)
  /\ toggles = 0
  /\ session = NoSession

\* power is lost and restored: the sketch starts again from the store
Reboot ==
  /\ relay_states' = Setup(eeprom).relay_states
  /\ pin' = Setup(eeprom).pin
  /\ hex_codes' = Setup(eeprom).hex_codes
  /\ led' = Setup(eeprom).led
  /\ serial' = Setup(eeprom).serial
  /\ cue' = << >>
  /\ pc' = "loop"
  /\ ret' = "none"
  /\ codes_stored' = 0
  /\ irHeld' = NONE
  /\ decoded' = NONE
  /\ btn' = << >>
  /\ UNCHANGED << eeprom, toggles >>

\* the step ends with what setup() printed, as only a step of Reboot does
\* (or a step that prints nothing right after it)
PowerOn == Len(serial') = 2 * NUM_RELAYS

\* ------------------------------------------------------------ toggleRelay()
\* variant: the EEPROM is updated with the state before the flip
toggleRelay_stale(s, index) ==
  LET on == ~ s.relay_states[index]
  IN  [ relay_states |-> [s.relay_states EXCEPT ![index] = on],
        pin          |-> [s.pin EXCEPT ![index] = RelayLevel(on)],
        eeprom       |-> EEPROM_update(s.eeprom, RELAY_STATE_ADDR + index,
                                       FromBool(s.relay_states[index])),
        line         |-> RelayLine(index, on) ]

\* variant: the state cell is addressed without RELAY_STATE_ADDR
toggleRelay_noBase(s, index) ==
  LET on == ~ s.relay_states[index]
  IN  [ relay_states |-> [s.relay_states EXCEPT ![index] = on],
        pin          |-> [s.pin EXCEPT ![index] = RelayLevel(on)],
        eeprom       |-> EEPROM_update(s.eeprom, index, FromBool(on)),
        line         |-> RelayLine(index, on) ]

\* s = [relay_states, pin, eeprom]; the result adds the line printed
toggleRelay(s, index) ==
  LET on == ~ s.relay_states[index]
  IN  [ relay_states |-> [s.relay_states EXCEPT ![index] = on],
        pin          |-> [s.pin EXCEPT ![index] = RelayLevel(on)],
        eeprom       |-> EEPROM_update(s.eeprom, RELAY_STATE_ADDR + index,
                                       FromBool(on)),
        line         |-> RelayLine(index, on) ]

\* the relay state the sketch holds now
Cur == [relay_states |-> relay_states, pin |-> pin, eeprom |-> eeprom]

\* ------------------------------------------------------------ decoder
\* what IrReceiver.decode() can return now: the frame still held when
\* resume() has not been called since, else a frame that came in, or none
Frames ==
  IF irHeld # NONE THEN {irHeld}
  ELSE {NONE} \cup IRCodes

\* ------------------------------------------------------------ loop()
\* variant: the scan without its break, which stops at the last match
Scan_noBreak(codes, c, i) ==
  IF \E k \in Relays : k >= i /\ codes[k] = c
    THEN CHOOSE k \in Relays :
           /\ k >= i
           /\ codes[k] = c
           /\ \A m \in Relays : m > k => codes[m] # c
    ELSE NUM_RELAYS

\* for (i = 0; i < NUM_RELAYS; i++) if (ir_code == hex_codes[i]) ... break;
\* the index the scan stops at, NUM_RELAYS when no slot matches
RECURSIVE Scan(_, _, _)
Scan(codes, c, i) ==
  IF i >= NUM_RELAYS THEN NUM_RELAYS
  ELSE IF c = codes[i] THEN i
  ELSE Scan(codes, c, i + 1)

\* memset(hex_codes, 0, sizeof(hex_codes))
ClearCodes(codes) == [i \in Relays |-> ZERO]

\* entry of enterConfigMode(), lines 150-156, called from `caller`
EnterConfig(caller, printed) ==
  /\ serial' = printed \o << Line("Entering Config Mode", 0, ZERO) >>
  /\ cue' = << "HIGH", "LOW" >>
  /\ led' = "LOW"
  /\ hex_codes' = ClearCodes(hex_codes)
  /\ codes_stored' = 0
  /\ pc' = "config"
  /\ ret' = caller
  /\ UNCHANGED << eeprom, relay_states, pin, toggles >>

\* nothing to do in this half of loop()
Skip(next) ==
  /\ pc' = next
  /\ serial' = << >>
  /\ cue' = << >>
  /\ UNCHANGED << eeprom, hex_codes, relay_states, pin, led, ret,
                  codes_stored, toggles >>

\* variant: no second read after the delay
Pressed_noDebounce(first, again) == first = "LOW"

\* line 112 and line 114: do the two reads of the button ask for Config Mode?
Pressed(first, again) == first = "LOW" /\ again = "LOW"

\* lines 112-117: the button is read, and read again after delay(50)
LoopButton ==
  /\ pc = "loop"
  /\ decoded' = NONE
  /\ UNCHANGED irHeld
  /\ \E first, again \in Levels :
       /\ btn' = IF first = "LOW" THEN << first, again >> ELSE << first >>
       /\ IF Pressed(first, again)
            THEN EnterConfig("button", << >>)
            ELSE Skip("irCheck")

\* lines 129-134: the table lookup for a code that is not the MODE code
Dispatch(c) ==
  LET j == Scan(hex_codes, c, 0)
      t == toggleRelay(Cur, j)
  IN  /\ IF j < NUM_RELAYS
           THEN /\ toggles < MaxToggles
                /\ toggles' = toggles + 1
                /\ relay_states' = t.relay_states
                /\ pin' = t.pin
                /\ eeprom' = t.eeprom
                /\ serial' = << Line("IR Received", 0, c), t.line >>
           ELSE /\ UNCHANGED << relay_states, pin, eeprom, toggles >>
                /\ serial' = << Line("IR Received", 0, c) >>
      /\ cue' = << >>
      /\ pc' = "loop"
      /\ UNCHANGED << hex_codes, led, ret, codes_stored >>

\* variant: the constant cut to a 16-bit int, 0x7F80
IsTrigger_int16(c) == c = <<128, 127, 0, 0>>

\* line 125: ir_code == CONFIG_IR_CODE
IsTrigger(c) == c = CONFIG_IR_CODE

\* variant: resume() is called only in the branch that found a match
LoopIR_resumeOnMatch(f) ==
  /\ pc = "irCheck"
  /\ decoded' = f
  /\ btn' = << >>
  /\ IF f = NONE
       THEN Skip("loop") /\ UNCHANGED irHeld
       ELSE IF f = CONFIG_IR_CODE
         THEN /\ EnterConfig("ir", << Line("IR Received", 0, f),
                                      Line("IR Config Trigger", 0, ZERO) >>)
              /\ irHeld' = f
         ELSE /\ Dispatch(f)
              /\ irHeld' = IF Scan(hex_codes, f, 0) < NUM_RELAYS THEN NONE ELSE f

\* lines 120-137: the decoder is polled with result f
LoopIR(f) ==
  /\ pc = "irCheck"
  /\ decoded' = f
  /\ btn' = << >>
  /\ IF f = NONE
       THEN Skip("loop") /\ UNCHANGED irHeld
       ELSE IF IsTrigger(f)
         THEN /\ EnterConfig("ir", << Line("IR Received", 0, f),
                                      Line("IR Config Trigger", 0, ZERO) >>)
              /\ irHeld' = f
         ELSE /\ Dispatch(f)
              /\ irHeld' = NONE

\* ------------------------------------------------------------ enterConfigMode()
\* variant: only the code stored last is compared
IsDuplicate_lastOnly(codes, n, c) == n > 0 /\ codes[n - 1] = c

\* variant: the comparison starts at slot 1
IsDuplicate_skipFirst(codes, n, c) == \E i \in 1 .. (n - 1) : codes[i] = c

\* lines 166-172: is c among the n codes already stored?
IsDuplicate(codes, n, c) == \E i \in 0 .. (n - 1) : codes[i] = c

\* variant: the MODE code is not excluded
Learnable_nonzero(c) == c # ZERO

\* line 165: ir_code != 0 && ir_code != CONFIG_IR_CODE
Learnable(c) == c # ZERO /\ c # CONFIG_IR_CODE

\* line 159: digitalWrite(LED_BUILTIN, !digitalRead(LED_BUILTIN))
Blink(level) == Not(level)

\* lines 189-194: three rapid blinks
ErrorCue == << "HIGH", "LOW", "HIGH", "LOW", "HIGH", "LOW" >>

\* lines 182-184: one quick blink
ConfirmCue == << "HIGH", "LOW" >>

\* line 175: hex_codes[codes_stored] = ir_code
StoreCode(codes, n, c) == [codes EXCEPT ![n] = c]

\* variant: the loop bound off by one
MoreToLearn_offByOne(n) == n < NUM_RELAYS - 1

\* line 158: codes_stored < NUM_RELAYS
MoreToLearn(n) == n < NUM_RELAYS

\* an iteration of the while loop in which decode() returns false
ConfigWait(f) ==
  /\ pc = "config"
  /\ f = NONE
  /\ decoded' = f
  /\ led' = Blink(led)
  /\ cue' = << >>
  /\ serial' = << >>
  /\ btn' = << >>
  /\ UNCHANGED << eeprom, hex_codes, relay_states, pin, pc, ret, codes_stored,
                  irHeld, toggles >>

\* variant: the MODE code received while learning starts the session over
ConfigIgnore_restart(f) ==
  /\ pc = "config"
  /\ f # NONE
  /\ ~ (f # ZERO /\ f # CONFIG_IR_CODE)
  /\ decoded' = f
  /\ led' = Not(led)
  /\ cue' = << >>
  /\ serial' = << >>
  /\ irHeld' = NONE
  /\ hex_codes' = IF f = CONFIG_IR_CODE THEN [i \in Relays |-> ZERO] ELSE hex_codes
  /\ codes_stored' = IF f = CONFIG_IR_CODE THEN 0 ELSE codes_stored
  /\ btn' = << >>
  /\ UNCHANGED << eeprom, relay_states, pin, pc, ret, toggles >>

\* variant: the iteration that ignores a code does not call resume()
ConfigIgnore_noResume(f) ==
  /\ pc = "config"
  /\ f # NONE
  /\ ~ (f # ZERO /\ f # CONFIG_IR_CODE)
  /\ decoded' = f
  /\ led' = Not(led)
  /\ cue' = << >>
  /\ serial' = << >>
  /\ irHeld' = f
  /\ btn' = << >>
  /\ UNCHANGED << eeprom, hex_codes, relay_states, pin, pc, ret, codes_stored,
                  toggles >>

\* an iteration that decodes zero or the MODE code: nothing but resume()
ConfigIgnore(f) ==
  /\ pc = "config"
  /\ f # NONE
  /\ ~ Learnable(f)
  /\ decoded' = f
  /\ led' = Blink(led)
  /\ cue' = << >>
  /\ serial' = << >>
  /\ irHeld' = NONE
  /\ btn' = << >>
  /\ UNCHANGED << eeprom, hex_codes, relay_states, pin, pc, ret, codes_stored,
                  toggles >>

\* an iteration that decodes a code already stored in this session
ConfigDuplicate(f) ==
  /\ pc = "config"
  /\ f # NONE
  /\ Learnable(f)
  /\ IsDuplicate(hex_codes, codes_stored, f)
  /\ decoded' = f
  /\ led' = "LOW"
  /\ cue' = ErrorCue
  /\ serial' = << Line("Duplicate!", 0, ZERO) >>
  /\ irHeld' = NONE
  /\ btn' = << >>
  /\ UNCHANGED << eeprom, hex_codes, relay_states, pin, pc, ret, codes_stored,
                  toggles >>

\* variant: the table is written to the EEPROM after every code stored
ConfigStore_saveEach(f) ==
  /\ pc = "config"
  /\ f # NONE
  /\ f # ZERO /\ f # CONFIG_IR_CODE
  /\ ~ (\E i \in 0 .. (codes_stored - 1) : hex_codes[i] = f)
  /\ decoded' = f
  /\ hex_codes' = [hex_codes EXCEPT ![codes_stored] = f]
  /\ codes_stored' = codes_stored + 1
  /\ irHeld' = NONE
  /\ eeprom' = EEPROM_put(eeprom, hex_codes')
  /\ IF codes_stored' < NUM_RELAYS
       THEN /\ serial' = << Line("Stored code", codes_stored, f) >>
            /\ cue' = << "HIGH", "LOW" >>
            /\ led' = "LOW"
            /\ UNCHANGED << pc, ret >>
       ELSE /\ serial' = << Line("Stored code", codes_stored, f),
                            Line("Configuration Saved", 0, ZERO) >>
            /\ cue' = << "HIGH", "LOW", "HIGH" >>
            /\ led' = "HIGH"
            /\ pc' = IF ret = "button" THEN "irCheck" ELSE "loop"
            /\ ret' = "none"
  /\ btn' = << >>
  /\ UNCHANGED << relay_states, pin, toggles >>

\* an iteration that stores a new code; after the last one the loop ends,
\* the table is written to the EEPROM (line 201) and the call returns
ConfigStore(f) ==
  /\ pc = "config"
  /\ f # NONE
  /\ Learnable(f)
  /\ ~ IsDuplicate(hex_codes, codes_stored, f)
  /\ decoded' = f
  /\ hex_codes' = StoreCode(hex_codes, codes_stored, f)
  /\ codes_stored' = codes_stored + 1
  /\ irHeld' = NONE
  /\ IF MoreToLearn(codes_stored')
       THEN /\ serial' = << Line("Stored code", codes_stored, f) >>
            /\ cue' = ConfirmCue
            /\ led' = "LOW"
            /\ UNCHANGED << eeprom, pc, ret >>
       ELSE /\ eeprom' = EEPROM_put(eeprom, hex_codes')
            /\ serial' = << Line("Stored code", codes_stored, f),
                            Line("Configuration Saved", 0, ZERO) >>
            /\ cue' = ConfirmCue \o << "HIGH" >>
            /\ led' = "HIGH"
            /\ pc' = IF ret = "button" THEN "irCheck" ELSE "loop"
            /\ ret' = "none"
  /\ btn' = << >>
  /\ UNCHANGED << relay_states, pin, toggles >>

\* ------------------------------------------------------------ specification
Next ==
  \/ LoopButton /\ UNCHANGED session
  \/ \E f \in Frames : LoopIR(f) /\ UNCHANGED session
  \/ \E f \in Frames : ConfigWait(f) /\ UNCHANGED session
  \/ \E f \in Frames : ConfigIgnore(f) /\ UNCHANGED session
  \/ \E f \in Frames : ConfigDuplicate(f) /\ UNCHANGED session
  \/ \E f \in Frames : ConfigStore(f) /\ UNCHANGED session
  \/ Reboot /\ UNCHANGED session

Spec == Init /\ [][Next]_vars

\* the program keeps running its loop, and learnable codes that are not yet
\* stored keep arriving while Config Mode waits for them
ConfigStep ==
  /\ \E f \in Frames :
       ConfigWait(f) \/ ConfigIgnore(f) \/ ConfigDuplicate(f) \/ ConfigStore(f)
  /\ UNCHANGED session

FreshCodeArrives ==
  /\ \E f \in Frames : ConfigStore(f)
  /\ UNCHANGED session

\* the corrupted store, in a run that has one toggle left
InitFair ==
  /\ Booted(CorruptStore)
  /\ toggles = MaxToggles - 1
  /\ session = NoSession

SpecFair ==
  /\ InitFair
  /\ [][Next]_vars
  /\ WF_vars(ConfigStep)
  /\ WF_vars(FreshCodeArrives)

\* how many codes one recorded session is fed
MaxStream == 6

\* the history of the running session: a code decoded in Config Mode is
\* appended, a "Duplicate!" counted; a reboot during the session starts it
\* afresh; the recorded run follows one session to its end and stops there
Record ==
  IF pc = "config" /\ ~ PowerOn
    THEN IF decoded' = NONE
           THEN UNCHANGED session
           ELSE /\ Len(session.fed) < MaxStream
                /\ session' =
                     [fed    |-> Append(session.fed, decoded'),
                      errors |-> session.errors +
                                   (IF serial' = << Line("Duplicate!", 0, ZERO) >>
                                      THEN 1 ELSE 0)]
    ELSE /\ pc = "config" \/ session = NoSession
         /\ session' = NoSession

NextStream ==
  \/ LoopButton /\ Record
  \/ \E f \in Frames : LoopIR(f) /\ Record
  \/ \E f \in Frames : ConfigWait(f) /\ Record
  \/ \E f \in Frames : ConfigIgnore(f) /\ Record
  \/ \E f \in Frames : ConfigDuplicate(f) /\ Record
  \/ \E f \in Frames : ConfigStore(f) /\ Record
  \/ Reboot /\ Record

\* the corrupted store, in a run that toggles no relay
InitStream ==
  /\ Booted(CorruptStore)
  /\ toggles = MaxToggles
  /\ session = NoSession

\* the sketch with the history of its Config session recorded
SpecStream == InitStream /\ [][NextStream]_vars

\* ------------------------------------------------------------ vocabulary
Normal == pc # "config"

Configuring == pc = "config"

\* the code table as the EEPROM cells 0 .. 4N-1 hold it
Persisted(ee) ==
  [i \in Relays |-> << ee[4 * i], ee[4 * i + 1], ee[4 * i + 2], ee[4 * i + 3] >>]

\* the relay-state cell of channel i
StateByte(ee, i) == ee[RELAY_STATE_ADDR + i]

\* a Normal-mode poll of the decoder hands over the code c
RecvNormal(c) == pc = "irCheck" /\ pc' # "irCheck" /\ decoded' = c

\* a Config-mode poll of the decoder hands over the code c
RecvConfig(c) == pc = "config" /\ decoded' = c

\* the lines of the form "Relay <i> ON/OFF" among those printed
RelayLines(out) ==
  {k \in DOMAIN out : out[k].ev \in {"Relay ON", "Relay OFF"}}

\* enterConfigMode() returns
Completes == pc = "config" /\ pc' # "config" /\ ~ PowerOn

\* c is stored in one of the first n slots of the table t
Among(t, n, c) == \E i \in Relays : i < n /\ t[i] = c

\* N codes, pairwise distinct, none zero, none the MODE code
GoodTable(t) ==
  /\ \A i \in Relays : t[i] # ZERO /\ t[i] # CONFIG_IR_CODE
  /\ \A i, k \in Relays : i # k => t[i] # t[k]

\* the relay state after toggleRelay(i) is called twice in succession
TwiceToggled(i) == toggleRelay(toggleRelay(Cur, i), i)

\* ------------------------------------------------------------ C1
\* C1 as stated: in Normal mode, for every channel i, two toggles of i in
\* succession leave relay_states[i] and the EEPROM cell 16+i as they were,
\* also for a cell that holds an arbitrary byte loaded at boot.
C1_DoubleToggleRestoresByte ==
  Normal =>
    \A i \in Relays :
      /\ TwiceToggled(i).relay_states[i] = relay_states[i]
      /\ StateByte(TwiceToggled(i).eeprom, i) = StateByte(eeprom, i)

\* C1 amended: two toggles of i in succession restore relay_states[i]; the
\* cell 16+i then holds 1 for ON and 0 for OFF, which is the byte it held
\* before exactly when that byte was 0 or 1 (a byte such as 0xFF loaded at
\* boot comes back as 1).
C1_DoubleToggleRestoresState ==
  Normal =>
    \A i \in Relays :
      /\ TwiceToggled(i).relay_states[i] = relay_states[i]
      /\ StateByte(TwiceToggled(i).eeprom, i) = (IF relay_states[i] THEN 1 ELSE 0)
      /\ StateByte(TwiceToggled(i).eeprom, i) = StateByte(eeprom, i)
           <=> StateByte(eeprom, i) \in {0, 1}

\* channel i, loaded ON from an erased cell, has been toggled twice and is
\* ON again with its cell holding 1; no other channel was touched
C1_Witness ==
  \E i \in Relays :
    /\ pc = "loop"
    /\ toggles = 2
    /\ relay_states[i]
    /\ StateByte(eeprom, i) = 1
    /\ serial = << Line("IR Received", 0, decoded), RelayLine(i, TRUE) >>
    /\ \A k \in Relays \ {i} : StateByte(eeprom, k) = 255

\* ------------------------------------------------------------ C2
\* the lowest slot of the table t that holds c
FirstSlot(t, c) ==
  CHOOSE j \in Relays : t[j] = c /\ \A k \in Relays : k < j => t[k] # c

\* C2: in Normal mode a received code c that is not the MODE code and is in
\* at least one slot toggles exactly one channel, the lowest slot j holding
\* c: state, line and cell of j flip, one "Relay j" line is printed, and
\* state, line and cell of every other channel are unchanged.
C2_FirstMatchToggles ==
  [][ \A c \in IRCodes :
        ( /\ RecvNormal(c)
          /\ c # CONFIG_IR_CODE
          /\ \E i \in Relays : hex_codes[i] = c )
        =>
        LET j == FirstSlot(hex_codes, c)
        IN  /\ relay_states'[j] = ~ relay_states[j]
            /\ pin'[j] = (IF relay_states'[j] THEN "LOW" ELSE "HIGH")
            /\ StateByte(eeprom', j) = (IF relay_states'[j] THEN 1 ELSE 0)
            /\ Cardinality(RelayLines(serial')) = 1
            /\ \A k \in RelayLines(serial') : serial'[k].idx = j
            /\ toggles' = toggles + 1
            /\ \A k \in Relays \ {j} :
                 /\ relay_states'[k] = relay_states[k]
                 /\ pin'[k] = pin[k]
                 /\ StateByte(eeprom', k) = StateByte(eeprom, k)
    ]_vars

\* KEY_A, held by slots 0 and 1 of the loaded table, has toggled channel 0
C2_Witness ==
  /\ pc = "loop"
  /\ decoded = KEY_A
  /\ hex_codes[0] = KEY_A
  /\ hex_codes[1] = KEY_A
  /\ serial = << Line("IR Received", 0, KEY_A), RelayLine(0, FALSE) >>

\* ------------------------------------------------------------ C3
\* C3: in Normal mode a received MODE code enters Config Mode and toggles
\* nothing, whatever the table holds: no relay state, line or EEPROM cell
\* changes and no "Relay" line is printed.
C3_TriggerEntersConfig ==
  [][ RecvNormal(CONFIG_IR_CODE) =>
        /\ pc' = "config"
        /\ relay_states' = relay_states
        /\ pin' = pin
        /\ eeprom' = eeprom
        /\ toggles' = toggles
        /\ RelayLines(serial') = {}
    ]_vars

\* Config Mode was entered by the MODE code while slot 2 of the table in the
\* store holds the MODE code, and channel 2 is as it was loaded
C3_Witness ==
  /\ pc = "config"
  /\ ret = "ir"
  /\ decoded = CONFIG_IR_CODE
  /\ Persisted(eeprom)[2] = CONFIG_IR_CODE
  /\ StateByte(eeprom, 2) = 1
  /\ relay_states[2]

\* ------------------------------------------------------------ C4
\* C4: in Config Mode a nonzero code, not the MODE code, that is already
\* among the codes stored in this session leaves the table and codes_stored
\* unchanged and gives the duplicate cue ("Duplicate!" and three blinks);
\* and the stored codes of a session are always pairwise distinct.
C4_DuplicateRejected ==
  /\ [][ \A c \in IRCodes :
           ( /\ RecvConfig(c)
             /\ c # ZERO
             /\ c # CONFIG_IR_CODE
             /\ Among(hex_codes, codes_stored, c) )
           =>
           /\ hex_codes' = hex_codes
           /\ codes_stored' = codes_stored
           /\ pc' = "config"
           /\ serial' = << Line("Duplicate!", 0, ZERO) >>
           /\ cue' = << "HIGH", "LOW", "HIGH", "LOW", "HIGH", "LOW" >>
       ]_vars
  /\ [](Configuring =>
          \A i, k \in Relays :
            i < k /\ k < codes_stored => hex_codes[i] # hex_codes[k])

\* with two codes stored, KEY_A, the first of them, has been sent again
C4_Witness ==
  /\ pc = "config"
  /\ codes_stored = 2
  /\ hex_codes[0] = KEY_A
  /\ decoded = KEY_A
  /\ serial = << Line("Duplicate!", 0, ZERO) >>

\* ------------------------------------------------------------ C5
\* a Config-mode poll hands over a code that is nonzero, not the MODE code
\* and not among the codes stored so far
Accepted ==
  \E c \in IRCodes :
    /\ RecvConfig(c)
    /\ c # ZERO
    /\ c # CONFIG_IR_CODE
    /\ ~ Among(hex_codes, codes_stored, c)

\* C5: codes_stored counts the accepted codes and nothing else, Config Mode
\* is left exactly by the step that stores the N-th accepted code, and, as
\* long as codes not yet stored keep arriving, Config Mode is always left.
C5_TerminatesAfterN ==
  /\ [][ (Configuring /\ ~ PowerOn) =>
           /\ codes_stored' = (IF Accepted THEN codes_stored + 1 ELSE codes_stored)
           /\ pc' # "config" <=> (Accepted /\ codes_stored = NUM_RELAYS - 1)
       ]_vars
  /\ (Configuring ~> Normal)

\* a session entered by the MODE code has ended with its fourth code
C5_Witness ==
  /\ pc = "loop"
  /\ codes_stored = NUM_RELAYS
  /\ decoded = KEY_D
  /\ serial = << Line("Stored code", 3, KEY_D),
                 Line("Configuration Saved", 0, ZERO) >>

\* ------------------------------------------------------------ C6
\* C6: when Config Mode completes, the table in memory is the buffer with
\* the last code added, the cells 0 .. 4N-1 hold it slot for slot, and in
\* Normal mode from then on (as after every boot) the table in memory is
\* the table in the store.
C6_SavedTableIsBuffer ==
  /\ [][ Completes =>
           /\ \A i \in Relays : i < NUM_RELAYS - 1 => hex_codes'[i] = hex_codes[i]
           /\ hex_codes'[NUM_RELAYS - 1] = decoded'
           /\ \A i \in Relays : \A b \in 1 .. 4 :
                eeprom'[4 * i + b - 1] = hex_codes'[i][b]
       ]_vars
  /\ [](Normal => Persisted(eeprom) = hex_codes)

\* a session entered by the button has just saved a table that differs from
\* the one loaded at boot
C6_Witness ==
  /\ pc = "irCheck"
  /\ codes_stored = NUM_RELAYS
  /\ serial[Len(serial)] = Line("Configuration Saved", 0, ZERO)
  /\ Persisted(eeprom) = hex_codes
  /\ hex_codes = [i \in Relays |-> << 17 * (NUM_RELAYS - i), 0, 0, 0 >>]

\* ------------------------------------------------------------ C7
\* C7: a table left by a completed session holds N pairwise distinct codes,
\* none zero and none the MODE code, in memory and in the store; and a table
\* that fails this is never written to the store, so the only such tables
\* are those the store held at first boot.
C7_LearnedTableWellFormed ==
  /\ [][ Completes =>
           GoodTable(hex_codes') /\ GoodTable(Persisted(eeprom')) ]_vars
  /\ [](Normal /\ codes_stored = NUM_RELAYS =>
          GoodTable(hex_codes) /\ GoodTable(Persisted(eeprom)))
  /\ [][ (eeprom' # eeprom /\ Persisted(eeprom') # Persisted(eeprom)) =>
           GoodTable(Persisted(eeprom')) ]_vars

\* after a reboot the sketch has loaded a well-formed table, which it can
\* only have learned, every table of a first boot being malformed
C7_Witness ==
  /\ pc = "loop"
  /\ codes_stored = 0
  /\ serial = SetupSerial(eeprom)
  /\ GoodTable(hex_codes)
  /\ \A ee \in InitStores : ~ GoodTable(Persisted(ee))

\* ------------------------------------------------------------ C8
\* C8: at all times each relay state is true exactly when its cell 16+i is
\* nonzero and its line is LOW when the state is true and HIGH when false;
\* so a boot from cells [1,0,1,0] drives LOW, HIGH, LOW, HIGH.
C8_ActiveLowMirror ==
  /\ \A i \in Relays :
       /\ relay_states[i] <=> StateByte(eeprom, i) # 0
       /\ pin[i] = (IF relay_states[i] THEN "LOW" ELSE "HIGH")
  /\ (\A i \in Relays : StateByte(eeprom, i) = (i + 1) % 2)
       => pin = [i \in Relays |-> IF i % 2 = 0 THEN "LOW" ELSE "HIGH"]

\* booted from cells [1,0,1,0], then channel 0 toggled off
C8_Witness ==
  /\ toggles = 1
  /\ [i \in Relays |-> StateByte(eeprom, i)] = [i \in Relays |-> IF i = 2 THEN 1 ELSE 0]
  /\ pin = [i \in Relays |-> IF i = 2 THEN "LOW" ELSE "HIGH"]
  /\ serial = << Line("IR Received", 0, KEY_A), RelayLine(0, FALSE) >>

\* ------------------------------------------------------------ C9
\* C9: while in Config Mode, short of a power loss, the sketch leaves it
\* only with codes_stored = N; no step toggles a relay or changes a relay
\* state, line or state cell; no step restarts the session (codes_stored
\* never drops and the codes stored stay); and no step reads the button, so
\* pressing, holding or releasing it has no effect.
C9_NoAbortPath ==
  [][ (Configuring /\ ~ PowerOn) =>
        /\ pc' # "config" => codes_stored' = NUM_RELAYS
        /\ relay_states' = relay_states
        /\ pin' = pin
        /\ \A i \in Relays : StateByte(eeprom', i) = StateByte(eeprom, i)
        /\ toggles' = toggles
        /\ RelayLines(serial') = {}
        /\ codes_stored' >= codes_stored
        /\ \A i \in Relays : i < codes_stored => hex_codes'[i] = hex_codes[i]
        /\ btn' = << >>
    ]_vars

\* with two codes stored, the MODE code arrived and the two codes are
\* still there
C9_Witness ==
  /\ pc = "config"
  /\ codes_stored = 2
  /\ decoded = CONFIG_IR_CODE
  /\ hex_codes[0] # ZERO
  /\ hex_codes[1] # ZERO

\* ------------------------------------------------------------ C10
\* C10: a reboot between two iterations of loop() restores the relay
\* states, the relay lines and the code table that were in memory.
C10_RebootRestores ==
  [][ (pc = "loop" /\ PowerOn /\ Reboot) =>
        /\ relay_states' = relay_states
        /\ pin' = pin
        /\ hex_codes' = hex_codes
    ]_vars

\* the sketch has rebooted into a learned table with a relay state that a
\* toggle wrote
C10_Witness ==
  /\ serial = SetupSerial(eeprom)
  /\ toggles = 2
  /\ hex_codes = [i \in Relays |-> << 17 * (i + 1), 0, 0, 0 >>]
  /\ [i \in Relays |-> StateByte(eeprom, i)] = [i \in Relays |-> IF i < 2 THEN 0 ELSE 255]

\* ------------------------------------------------------------ C11
\* C11: whenever the sketch is in Normal mode, from the end of setup() on,
\* the LED is steadily on ("Solid LED = System ready"); it is off or
\* blinking only in Config Mode.
C11_ReadyLedInNormal == Normal => led = "HIGH"

\* ------------------------------------------------------------ C12
\* C12: after setup() has run on an EEPROM that was never written (every
\* cell 0xFF), every relay is OFF with its line inactive (HIGH) and every
\* slot of the code table is blank (zero).
C12_FirstRunBlank ==
  (eeprom = ErasedStore /\ serial = SetupSerial(eeprom)) =>
    \A i \in Relays :
      /\ ~ relay_states[i]
      /\ pin[i] = "HIGH"
      /\ hex_codes[i] = ZERO

\* ------------------------------------------------------------ C14
\* C14: in Config Mode a decoded code that is zero or the MODE code is
\* ignored: the codes stored and codes_stored are unchanged, no duplicate
\* error is signalled (no line, no blinks), the session goes on, and
\* resume() is called.
C14_ZeroAndTriggerIgnored ==
  [][ \A c \in {ZERO, CONFIG_IR_CODE} :
        RecvConfig(c) =>
          /\ hex_codes' = hex_codes
          /\ codes_stored' = codes_stored
          /\ serial' = << >>
          /\ cue' = << >>
          /\ pc' = "config"
          /\ irHeld' = NONE
    ]_vars

\* with one code stored, a zero code arrived and was dropped
C14_Witness ==
  /\ pc = "config"
  /\ codes_stored = 1
  /\ hex_codes[0] = KEY_B
  /\ decoded = ZERO
  /\ irHeld = NONE
  /\ serial = << >>

\* ------------------------------------------------------------ C15
\* C15: Normal mode is left for Config Mode only by the button reading LOW
\* at line 112 and LOW again at line 114, or by a decoded MODE code; a
\* button that reads LOW and then HIGH does not enter Config Mode.
C15_EntryOnlyByTrigger ==
  /\ [][ (Normal /\ pc' = "config") =>
           \/ pc = "loop" /\ btn' = << "LOW", "LOW" >> /\ decoded' = NONE
           \/ pc = "irCheck" /\ btn' = << >> /\ decoded' = CONFIG_IR_CODE
       ]_vars
  /\ [][ (pc = "loop" /\ btn' = << "LOW", "HIGH" >>) => pc' = "irCheck" ]_vars

\* Config Mode was entered by the button held over both reads
C15_Witness ==
  /\ pc = "config"
  /\ ret = "button"
  /\ btn = << "LOW", "LOW" >>
  /\ codes_stored = 0
  /\ serial = << Line("Entering Config Mode", 0, ZERO) >>

\* ------------------------------------------------------------ C16
\* C16: in Normal mode a received code that is not the MODE code and is in
\* no slot of the table changes nothing: no relay is toggled, the relay
\* states, lines and EEPROM cells, the table and the mode stay as they are,
\* and resume() is called.
C16_NoMatchNoChange ==
  [][ \A c \in IRCodes :
        ( /\ RecvNormal(c)
          /\ c # CONFIG_IR_CODE
          /\ \A i \in Relays : hex_codes[i] # c )
        =>
        /\ relay_states' = relay_states
        /\ pin' = pin
        /\ eeprom' = eeprom
        /\ hex_codes' = hex_codes
        /\ toggles' = toggles
        /\ RelayLines(serial') = {}
        /\ pc' = "loop"
        /\ irHeld' = NONE
    ]_vars

\* KEY_D, which the loaded table does not hold, was received
C16_Witness ==
  /\ pc = "loop"
  /\ decoded = KEY_D
  /\ hex_codes = Persisted(CorruptStore)
  /\ serial = << Line("IR Received", 0, KEY_D) >>
  /\ irHeld = NONE
  /\ toggles = 0

\* ------------------------------------------------------------ C17
\* C17: the EEPROM cells 0 .. 4N-1 change only in the step in which
\* enterConfigMode() returns: entering Config Mode, storing, ignoring or
\* rejecting a code, and toggling a relay leave them as they are, so a
\* reboot during the session loads the table saved before it; the write at
\* the end of the session leaves the cells 16 .. 16+N-1 as they are.
C17_TableWrittenOnlyAtCompletion ==
  /\ [][ (eeprom' # eeprom /\ ~ Completes) =>
           Persisted(eeprom') = Persisted(eeprom) ]_vars
  /\ [][ (Configuring /\ PowerOn) =>
           /\ eeprom' = eeprom
           /\ hex_codes' = Persisted(eeprom) ]_vars
  /\ [][ Completes =>
           \A i \in Relays : StateByte(eeprom', i) = StateByte(eeprom, i) ]_vars

\* three codes are stored in memory and the EEPROM still holds the table
\* the sketch booted with, after a relay was toggled
C17_Witness ==
  /\ pc = "config"
  /\ codes_stored = 3
  /\ toggles = 1
  /\ Persisted(eeprom) = Persisted(CorruptStore)
  /\ hex_codes[2] = KEY_C

\* ------------------------------------------------------------ C18
\* C18: in both modes, when decode() has returned a code, resume() is
\* called before decode() is called again, whatever branch handled the
\* code; so also for the MODE code received in Normal mode.
C18_ResumedBeforeNextPoll ==
  [][ decoded' # NONE => irHeld' = NONE ]_vars

\* ------------------------------------------------------------ C19
\* C19: in Normal mode no received code, a decoded zero included, toggles
\* the relay of a slot that holds zero.
C19_ZeroSlotNeverToggled ==
  [][ \A c \in IRCodes : \A i \in Relays :
        (RecvNormal(c) /\ hex_codes[i] = ZERO) =>
          /\ relay_states'[i] = relay_states[i]
          /\ pin'[i] = pin[i]
          /\ StateByte(eeprom', i) = StateByte(eeprom, i)
    ]_vars

\* ------------------------------------------------------------ C13
\* the places of the stream s that hold a nonzero code, not the MODE code,
\* that no earlier place holds
Fresh(s) ==
  {k \in DOMAIN s :
     /\ s[k] # ZERO
     /\ s[k] # CONFIG_IR_CODE
     /\ \A j \in 1 .. (k - 1) : s[j] # s[k]}

\* the places of s that hold such a code once more
Repeated(s) ==
  {k \in DOMAIN s :
     /\ s[k] # ZERO
     /\ s[k] # CONFIG_IR_CODE
     /\ \E j \in 1 .. (k - 1) : s[j] = s[k]}

\* the place of the (i+1)-th fresh code of s
NthFresh(s, i) ==
  CHOOSE k \in Fresh(s) : Cardinality({j \in Fresh(s) : j < k}) = i

\* C13: for the stream of codes fed to one Config session, slot k of the
\* table holds the k-th nonzero code, not the MODE code, that the stream had
\* not held before, in the order of arrival; "Duplicate!" was signalled once
\* for each code of the stream that repeats such a code; and when the
\* session has ended, N codes are stored and that table is in the EEPROM.
C13_TableIsFirstDistinct ==
  (Configuring \/ session.fed # << >>) =>
    /\ codes_stored = Cardinality(Fresh(session.fed))
    /\ \A i \in Relays :
         i < codes_stored => hex_codes[i] = session.fed[NthFresh(session.fed, i)]
    /\ session.errors = Cardinality(Repeated(session.fed))
    /\ Normal => /\ codes_stored = NUM_RELAYS
                 /\ Persisted(eeprom) = hex_codes

\* the session fed 0x11, 0x22, 0x11, 0x33, 0x44 has ended with the table
\* 0x11, 0x22, 0x33, 0x44 and one duplicate error
C13_Witness ==
  /\ Normal
  /\ session.fed = << KEY_A, KEY_B, KEY_A, KEY_C, KEY_D >>
  /\ session.errors = 1
  /\ hex_codes = [i \in Relays |-> << 17 * (i + 1), 0, 0, 0 >>]
  /\ Persisted(eeprom) = hex_codes

\* ------------------------------------------------------------ C20
\* The design with a buffer of its own for the codes being learned: the
\* Learned Code Table is loaded at startup, is used by the lookup of Normal
\* mode, and is replaced, together with its copy in the store, only when a
\* session has filled the buffer.
ZeroTable == [i \in Relays |-> ZERO]

DesignBoot(st) ==
  [ mode   |-> "Normal",
    table  |-> EEPROM_get(st),
    buffer |-> ZeroTable,
    filled |-> 0,
    states |-> LoadStates(st),
    store  |-> st ]

DesignEnter(d) ==
  [d EXCEPT !.mode = "Configuring", !.buffer = ZeroTable, !.filled = 0]

\* the slot the lookup stops at, if any
DesignMatch(d, c) ==
  {j \in Relays : d.table[j] = c /\ \A k \in 0 .. (j - 1) : d.table[k] # c}

DesignToggle(d, j) ==
  [d EXCEPT !.states[j] = ~ d.states[j],
            !.store[RELAY_STATE_ADDR + j] = IF d.states[j] THEN 0 ELSE 1]

DesignLearn(d, c) ==
  IF \/ c = ZERO
     \/ c = CONFIG_IR_CODE
     \/ \E i \in 0 .. (d.filled - 1) : d.buffer[i] = c
    THEN d
    ELSE LET b == [d.buffer EXCEPT ![d.filled] = c]
         IN  IF d.filled + 1 < NUM_RELAYS
               THEN [d EXCEPT !.buffer = b, !.filled = d.filled + 1]
               ELSE [d EXCEPT !.mode = "Normal",
                              !.table = b,
                              !.store = EEPROM_put(d.store, b),
                              !.buffer = ZeroTable,
                              !.filled = 0]

\* what the design does, from its state d, with the event of this step: a
\* power-on, the two reads of the button, or the result of a poll
DesignStep(d) ==
  IF PowerOn THEN DesignBoot(d.store)
  ELSE IF pc = "loop"
    THEN IF btn' = << "LOW", "LOW" >> THEN DesignEnter(d) ELSE d
  ELSE IF decoded' = NONE THEN d
  ELSE IF d.mode = "Configuring" THEN DesignLearn(d, decoded')
  ELSE IF decoded' = CONFIG_IR_CODE THEN DesignEnter(d)
  ELSE IF DesignMatch(d, decoded') = {} THEN d
  ELSE DesignToggle(d, CHOOSE j \in DesignMatch(d, decoded') : TRUE)

\* the relays the design switches in this step, each with its new state
DesignToggles(d) ==
  IF \/ PowerOn
     \/ pc # "irCheck"
     \/ decoded' = NONE
     \/ decoded' = CONFIG_IR_CODE
    THEN {}
    ELSE {<< j, ~ d.states[j] >> : j \in DesignMatch(d, decoded')}

\* the relays the sketch switches in this step, each with its new state
CodeToggles ==
  IF PowerOn THEN {}
  ELSE {<< serial'[k].idx, serial'[k].ev = "Relay ON" >> :
          k \in RelayLines(serial')}

\* the state of the sketch read as a state of the design: while learning,
\* hex_codes is the buffer and the table is the one the EEPROM holds
Mapped ==
  [ mode   |-> IF Normal THEN "Normal" ELSE "Configuring",
    table  |-> IF Normal THEN hex_codes ELSE EEPROM_get(eeprom),
    buffer |-> IF Normal THEN ZeroTable ELSE hex_codes,
    filled |-> IF Normal THEN 0 ELSE codes_stored,
    states |-> relay_states,
    store  |-> eeprom ]

\* C20: the sketch, which learns into hex_codes itself, behaves as the
\* design with a buffer of its own: started alike, every step of the
\* sketch, for every button read, decoder result and reboot, is the step
\* the design takes on the same event, with the same relays toggled, the
\* same EEPROM contents, and the same table in memory in Normal mode.
C20_InPlaceBufferRefinesDesign ==
  /\ Mapped = DesignBoot(eeprom)
  /\ [][ /\ Mapped' = DesignStep(Mapped)
         /\ CodeToggles = DesignToggles(Mapped) ]_vars

\* two codes are learned into hex_codes while the EEPROM still holds the
\* table the lookup used before, and a relay was toggled before the session
C20_Witness ==
  /\ pc = "config"
  /\ codes_stored = 2
  /\ toggles = 1
  /\ hex_codes[0] = KEY_C
  /\ hex_codes[1] = KEY_D
  /\ EEPROM_get(eeprom)[0] = KEY_A

====
